---------------------------- MODULE Spec2Model ----------------------------
(***************************************************************************)
(* Model of market_matrix_updater.py: the metric calculator                *)
(* (calculate_returns, calculate_spread_changes, safe_float), the fetch    *)
(* orchestrator (fetch_all_data, get_fred_data, get_cboe_put_call_ratio),  *)
(* the publishers (save_json_data, update_notion_database) and main.       *)
(*                                                                         *)
(* Numbers.  A series value is an integer count of 10^-7 units (one digit  *)
(* finer than the 6 decimals safe_float keeps).  An intermediate float is  *)
(* a record: an exact fraction n/d, or inf, or nan.  A metric value is     *)
(* what safe_float returns: <<m>> for the float m * 10^-6, or << >> for    *)
(* Python's None.                                                          *)
(* Timestamps are day ordinals counted from the first day of the first     *)
(* year of Years, converted to and from (year, month, day) by the          *)
(* Gregorian calendar.                                                     *)
(***************************************************************************)
EXTENDS Integers, Sequences, FiniteSets, TLC

VARIABLES
    \* ---- one call of a metric function (specification SpecCalc)
    cpc,        \* "call" before the call, "returned" after it
    kind,       \* "return" (calculate_returns) or "delta" (calculate_spread_changes)
    series,     \* the argument: a df/series record
    result,     \* the value returned
    \* ---- one run of main (specifications Spec, FairSpec, SpecFetch)
    pc,         \* position in main
    idx,        \* position in TICKER_MAP.items()
    all_data,   \* the Result Set being built: name -> Metric Set
    fetched,    \* history: per fetch attempted, in order, what the provider gave
    fredKey,    \* FRED_API_KEY is set
    fredReqs,   \* history: the requests get_fred_data has sent
    fredFirst,  \* history: how the primary (API) attempt ended
    notionKey,  \* NOTION_API_KEY: "unset", "empty" or "set"
    snapshot,   \* data.json: << >> before it is written, <<assets>> after
    pages,      \* the rows get_notion_pages returned
    pidx,       \* position in the loop over pages
    remote      \* history: the calls made to the remote store, in order

calcVars == <<cpc, kind, series, result>>
mainVars == <<pc, idx, all_data, fetched, fredKey, fredReqs, fredFirst,
              notionKey, snapshot, pages, pidx, remote>>
vars == <<cpc, kind, series, result, pc, idx, all_data, fetched, fredKey,
          fredReqs, fredFirst, notionKey, snapshot, pages, pidx, remote>>

-----------------------------------------------------------------------------
(* Bounds of the model *)

\* series lengths 0..MaxSmallLen are all tried
MaxSmallLen == 8
\* the length of the long series (more than every lookback)
LongLen == 300
\* how many entries of TICKER_MAP a run iterates over
NumTickers == 2
\* how many rows the remote store returns at most
MaxPages == 2

-----------------------------------------------------------------------------
(* Calendar: pd.Timestamp, .year, .month *)

Years == 2022..2025

IsLeap(y) == (y % 4 = 0 /\ y % 100 # 0) \/ y % 400 = 0

DaysInMonth(y, m) ==
    IF m = 2 THEN (IF IsLeap(y) THEN 29 ELSE 28)
    ELSE IF m \in {4, 6, 9, 11} THEN 30 ELSE 31

RECURSIVE DaysBeforeMonth(_, _)
DaysBeforeMonth(y, m) ==
    IF m = 1 THEN 0 ELSE DaysBeforeMonth(y, m - 1) + DaysInMonth(y, m - 1)

RECURSIVE DaysBeforeYear(_)
DaysBeforeYear(y) ==
    IF y = 2022 THEN 0
    ELSE DaysBeforeYear(y - 1) + (IF IsLeap(y - 1) THEN 366 ELSE 365)

\* pd.Timestamp(datetime(y, m, d)) as a day ordinal
Timestamp(y, m, d) == DaysBeforeYear(y) + DaysBeforeMonth(y, m) + d - 1

LastOrdinal == Timestamp(2025, 12, 31)

\* the (year, month) of every day ordinal
DateTable ==
    [o \in 0..LastOrdinal |->
        CHOOSE ym \in Years \X (1..12) :
            /\ Timestamp(ym[1], ym[2], 1) <= o
            /\ o < Timestamp(ym[1], ym[2], 1) + DaysInMonth(ym[1], ym[2])]

TsYear(ts) == DateTable[ts][1]
TsMonth(ts) == DateTable[ts][2]

-----------------------------------------------------------------------------
(* Floats and safe_float *)

\* round(value, 6): 10^6 keeps 6 decimals
RoundScale == 1000000
\* series values carry one decimal digit more than safe_float keeps
InputScale == 10 * RoundScale

Fin(n, d) == [k |-> "fin", n |-> n, d |-> d]
Inf == [k |-> "inf", n |-> 0, d |-> 1]
NaN == [k |-> "nan", n |-> 0, d |-> 1]

PyNone == << >>

\* n/d (d > 0) rounded to the nearest integer, ties to even
RoundHalfEven(n, d) ==
    LET q == n \div d
        r == n % d
    IN  IF 2 * r < d THEN q
        ELSE IF 2 * r > d THEN q + 1
        ELSE IF q % 2 = 0 THEN q ELSE q + 1

safe_float(f) ==
    IF f.k # "fin" THEN PyNone
    ELSE <<RoundHalfEven(f.n * RoundScale, f.d)>>

\* float(v) of a series value
FloatOf(v) == Fin(v, InputScale)

\* last / old - 1 in float64 arithmetic: x/0 is inf, 0/0 is nan
PctChange(last, old) ==
    IF old = 0 THEN (IF last = 0 THEN NaN ELSE Inf)
    ELSE IF old > 0 THEN Fin(last - old, old)
    ELSE Fin(old - last, 0 - old)

\* last - old
AbsChange(last, old) == Fin(last - old, InputScale)

-----------------------------------------------------------------------------
(* pandas: a df/series is [isNone, dtIndex, rows]; a row is [ts, val, nan] *)

\* series.dropna()
dropna(rows) == SelectSeq(rows, LAMBDA r : ~r.nan)

\* s.iloc[i]; i is negative in every use
Iloc(s, i) == s[Len(s) + i + 1]

\* mutant: the window boundary made exclusive
FromDate_exclusive(s, start) == SelectSeq(s, LAMBDA r : r.ts > start)

\* s[s.index >= start]
FromDate(s, start) == SelectSeq(s, LAMBDA r : r.ts >= start)

\* returns[key] = value
Put(dict, key, value) ==
    [x \in DOMAIN dict \cup {key} |-> IF x = key THEN value ELSE dict[x]]

None == [none |-> TRUE, d |-> << >>]
Some(dict) == [none |-> FALSE, d |-> dict]

-----------------------------------------------------------------------------
(* calculate_returns *)

\* mutant: one more point demanded
TooShort_three(close) == Len(close) < 3

\* if len(close) < 2: return None
TooShort(close) == Len(close) < 2

\* mutant: the length test off by one
HasPoints_strict(close, k) == Len(close) > k

\* if len(close) >= k
HasPoints(close, k) == Len(close) >= k

\* (close.iloc[-1] / close.iloc[-k] - 1)
PointReturn(close, k) == PctChange(Iloc(close, -1).val, Iloc(close, 0 - k).val)

\* series.iloc[-1] - series.iloc[-k]
PointDelta(s, k) == AbsChange(Iloc(s, -1).val, Iloc(s, 0 - k).val)

\* ((today.month - 1) // 3) * 3 + 1
quarter_month(today) == ((TsMonth(today) - 1) \div 3) * 3 + 1

quarter_start(today) == Timestamp(TsYear(today), quarter_month(today), 1)

year_start(today) == Timestamp(TsYear(today), 1, 1)

\* the QTD / YTD block: filter, need 2 points, last / first - 1
ToDate(dict, key, close, start) ==
    LET data == FromDate(close, start)
    IN  IF Len(data) >= 2
        THEN Put(dict, key,
                 safe_float(PctChange(Iloc(data, -1).val, data[1].val)))
        ELSE dict

\* one of the 1d / 1w / 1m / 1y blocks of calculate_returns
ReturnBlock(dict, key, close, k) ==
    IF HasPoints(close, k)
    THEN Put(dict, key, safe_float(PointReturn(close, k)))
    ELSE dict

calculate_returns(df) ==
    IF df.isNone \/ Len(df.rows) = 0 THEN None
    ELSE
      LET close == dropna(df.rows) IN
      IF TooShort(close) THEN None
      ELSE IF ~df.dtIndex THEN None     \* today.month raises; except: return None
      ELSE
        LET today == Iloc(close, -1).ts
            r0 == [x \in {"latest"} |-> safe_float(FloatOf(Iloc(close, -1).val))]
            r1 == ReturnBlock(r0, "1d", close, 2)
            r2 == ReturnBlock(r1, "1w", close, 6)
            r3 == ReturnBlock(r2, "1m", close, 22)
            r4 == ReturnBlock(r3, "1y", close, 253)
            r5 == ToDate(r4, "QTD", close, quarter_start(today))
            r6 == ToDate(r5, "YTD", close, year_start(today))
        IN  Some(r6)

-----------------------------------------------------------------------------
(* calculate_spread_changes *)

\* one of the 1d / 1w / 1m / 1y blocks of calculate_spread_changes
DeltaBlock(dict, key, s, k) ==
    IF HasPoints(s, k)
    THEN Put(dict, key, safe_float(PointDelta(s, k)))
    ELSE dict

\* mutant: the QTD block of calculate_returns carried over to the deltas
SpreadResult_qtd(s) ==
    Put([x \in {"latest"} |-> safe_float(FloatOf(Iloc(s, -1).val))],
        "QTD", safe_float(AbsChange(Iloc(s, -1).val, s[1].val)))

\* the dict built after the dropna
SpreadResult(s) ==
    LET r0 == [x \in {"latest"} |-> safe_float(FloatOf(Iloc(s, -1).val))]
        r1 == DeltaBlock(r0, "1d", s, 2)
        r2 == DeltaBlock(r1, "1w", s, 6)
        r3 == DeltaBlock(r2, "1m", s, 22)
        r4 == DeltaBlock(r3, "1y", s, 253)
    IN  r4

calculate_spread_changes(df) ==
    IF df.isNone \/ Len(df.rows) < 2 THEN None
    ELSE
      LET s == dropna(df.rows) IN
      IF Len(s) = 0 THEN None      \* series.iloc[-1] raises; except: return None
      ELSE Some(SpreadResult(s))

-----------------------------------------------------------------------------
(* The series the providers can return *)

\* the value at position i of a series of n rows, by pattern
ValAt(vp, i, n) ==
    CASE vp = "walk" -> 100 + i + ((i * 7) % 13)        \* never 0, never flat
      [] vp = "mod" -> (i * 3) % 7                      \* small, with zeros
      [] OTHER -> ((n - i) * 3) % 7                     \* "countdown": ends at 0

\* whether the value at position i is missing, by pattern
NanAt(np, i, n) ==
    CASE np = "none" -> FALSE
      [] np = "last" -> i = n
      [] np = "butlast" -> i < n
      [] OTHER -> TRUE                                  \* "all"

\* n rows, `gap` days apart, the last one dated `end`
GenRows(n, end, gap, vp, np) ==
    [i \in 1..n |-> [ts |-> end - (n - i) * gap,
                     val |-> IF NanAt(np, i, n) THEN 0 ELSE ValAt(vp, i, n),
                     nan |-> NanAt(np, i, n)]]

Frame(rows) == [isNone |-> FALSE, dtIndex |-> TRUE, rows |-> rows]
NoneFrame == [isNone |-> TRUE, dtIndex |-> TRUE, rows |-> << >>]

Lens == (0..MaxSmallLen) \cup {21, 22, 23, 252, 253, 254} \cup {LongLen}

EndDates ==
    {Timestamp(2024, m, d) : m \in 1..12, d \in {1, 2, 15}}
        \cup {Timestamp(2024, 2, 29), Timestamp(2025, 1, 1)}

CalcInputs ==
    {Frame(GenRows(n, e, g, vp, np)) :
        n \in Lens, e \in EndDates, g \in {1, 2},
        vp \in {"walk", "mod"}, np \in {"none", "last", "butlast", "all"}}
      \cup {NoneFrame}

-----------------------------------------------------------------------------
(* Configuration and what the providers answer *)

\* TICKER_MAP.items(), in order (display names transliterated):
\* "美元", "2年美债", "10年美债"
AllTickers ==
    <<[name |-> "USD", ticker |-> "DX-Y.NYB"],
      [name |-> "UST2Y", ticker |-> "^IRX"],
      [name |-> "UST10Y", ticker |-> "^TNX"]>>

TickerMap == SubSeq(AllTickers, 1, NumTickers)

\* "垃圾债券利差" and "PUT/CALL"
FredName == "HYSpread"
CboeName == "PUT/CALL"

\* One answer of a provider.  k: "raise" (the call raises), "http_error" (a
\* status other than 200), "none" (None is returned), "skipped" (no request
\* was made) or "data" (a table of n rows dated up to e).
Answer(k, n, e, vp, np, dt) ==
    [k |-> k, n |-> n, e |-> e, g |-> 1, vp |-> vp, np |-> np, dt |-> dt]

Raises == Answer("raise", 0, 0, "walk", "none", TRUE)
HttpError == Answer("http_error", 0, 0, "walk", "none", TRUE)
ReturnsNone == Answer("none", 0, 0, "walk", "none", TRUE)
Skipped == Answer("skipped", 0, 0, "walk", "none", TRUE)
Data(n, e, vp, np) == Answer("data", n, e, vp, np, TRUE)

\* the table of an answer
RowsOf(o) == IF o.k = "data" THEN GenRows(o.n, o.e, o.g, o.vp, o.np) ELSE << >>

DfOf(o) ==
    IF o.k = "data"
    THEN [isNone |-> FALSE, dtIndex |-> o.dt, rows |-> RowsOf(o)]
    ELSE NoneFrame

\* what yf.download can do, main run: a failure, an empty table, a short one
YahooSmall ==
    {Raises, Data(0, 0, "walk", "none"),
     Data(2, Timestamp(2024, 8, 15), "walk", "none")}

\* what yf.download can do, fetch phase in detail
YahooRich ==
    {Raises, ReturnsNone,
     Data(0, 0, "walk", "none"),
     Data(1, Timestamp(2024, 8, 15), "walk", "none"),
     Data(3, Timestamp(2024, 8, 15), "mod", "none"),
     Data(4, Timestamp(2024, 8, 15), "walk", "all"),
     Answer("data", 6, Timestamp(2024, 8, 15), "walk", "none", FALSE),
     Data(LongLen, Timestamp(2024, 8, 15), "walk", "none"),
     Data(LongLen, Timestamp(2024, 7, 1), "walk", "none"),
     Data(LongLen, Timestamp(2025, 1, 1), "walk", "none"),
     Data(LongLen, Timestamp(2024, 8, 15), "countdown", "none")}

\* the FRED API (primary) and the CSV download (secondary)
FredApiSmall == {Raises, HttpError, Data(3, Timestamp(2024, 8, 15), "walk", "none")}
FredCsvSmall == {Raises, Data(3, Timestamp(2024, 8, 15), "walk", "none")}
FredApiRich ==
    {Raises, HttpError,
     Data(0, 0, "walk", "none"),
     Data(3, Timestamp(2024, 8, 15), "walk", "all"),
     Data(3, Timestamp(2024, 8, 15), "walk", "none")}
FredCsvRich ==
    {Raises, HttpError,
     Data(1, Timestamp(2024, 8, 15), "walk", "none"),
     Data(23, Timestamp(2024, 8, 15), "mod", "last")}

\* the CBOE download through requests, and again through urllib
CboeFirst == {Raises, HttpError, Data(7, Timestamp(2024, 8, 15), "walk", "none")}
CboeSecond == {Raises, Data(2, Timestamp(2024, 8, 15), "walk", "all")}

-----------------------------------------------------------------------------
(* fetch_all_data *)

\* mutant: only None is false
Truthy_notNone(v) == v # PyNone

\* Python truthiness of a metric value: None and 0.0 are false
Truthy(v) == v # PyNone /\ v[1] # 0

\* the body of the try block of the Yahoo loop, after the download:
\* the Metric Set to store, or None when nothing is stored
YahooResult(o) ==
    IF o.k # "data" THEN None               \* raised (except) or df is None
    ELSE IF o.n = 0 THEN None               \* df.empty
    ELSE LET returns == calculate_returns(DfOf(o))
         IN  IF ~returns.none /\ Truthy(returns.d["latest"])
             THEN returns ELSE None

\* mutant: an exception of the download ends the run
YahooNextPc_abort(o, i) ==
    IF o.k = "raise" THEN "crashed"
    ELSE IF i = Len(TickerMap) THEN "fred" ELSE "yahoo"

\* where the run goes after the i-th ticker: the except clause swallows the
\* exception, so the answer plays no part
YahooNextPc(o, i) == IF i = Len(TickerMap) THEN "fred" ELSE "yahoo"

\* all_data[name] = r, when r is not None
Store(data, name, r) == IF r.none THEN data ELSE Put(data, name, r.d)

FetchYahoo(pool) ==
    /\ pc = "yahoo"
    /\ idx < Len(TickerMap)
    /\ \E o \in pool :
          LET name == TickerMap[idx + 1].name IN
          /\ all_data' = Store(all_data, name, YahooResult(o))
          /\ fetched' = Append(fetched, [name |-> name, o |-> o])
          /\ idx' = idx + 1
          /\ pc' = YahooNextPc(o, idx + 1)
    /\ UNCHANGED <<fredKey, fredReqs, fredFirst, notionKey, snapshot, pages,
                   pidx, remote, calcVars>>

\* get_fred_data(series_id, api_key) given the answers o1 of the API and o2 of
\* the CSV download: the series returned (val), the requests sent (reqs) and
\* the answer the value comes from (src)
get_fred_data(key, o1, o2) ==
    IF key /\ o1.k = "raise"
    THEN [val |-> NoneFrame, reqs |-> <<"api">>, src |-> o1]
    ELSE IF key /\ o1.k = "data" /\ o1.n > 0
    THEN [val |-> Frame(dropna(RowsOf(o1))), reqs |-> <<"api">>, src |-> o1]
    ELSE [val |-> IF o2.k = "data" THEN Frame(dropna(RowsOf(o2)))
                  ELSE NoneFrame,
          reqs |-> (IF key THEN <<"api">> ELSE << >>) \o <<"csv">>,
          src |-> o2]

\* the `if ... is not None and len(...) > 0` block of a delta instrument
SpreadStep(val) ==
    IF ~val.isNone /\ Len(val.rows) > 0
    THEN calculate_spread_changes(val)      \* a dict is stored when not None
    ELSE None

FetchFred(apiPool, csvPool) ==
    /\ pc = "fred"
    /\ \E o1 \in apiPool, o2 \in csvPool :
          LET got == get_fred_data(fredKey, o1, o2) IN
          /\ all_data' = Store(all_data, FredName, SpreadStep(got.val))
          /\ fetched' = Append(fetched, [name |-> FredName, o |-> got.src])
          /\ fredReqs' = got.reqs
          /\ fredFirst' = IF fredKey THEN o1 ELSE Skipped
    /\ pc' = "cboe"
    /\ UNCHANGED <<idx, fredKey, notionKey, snapshot, pages, pidx, remote,
                   calcVars>>

\* get_cboe_put_call_ratio() given the answers of requests and of urllib
get_cboe_put_call_ratio(o1, o2) ==
    IF o1.k = "raise" THEN [val |-> NoneFrame, src |-> o1]
    ELSE IF o1.k = "data"
    THEN [val |-> Frame(dropna(RowsOf(o1))), src |-> o1]
    ELSE [val |-> IF o2.k = "data" THEN Frame(dropna(RowsOf(o2)))
                  ELSE NoneFrame,
          src |-> o2]

FetchCboe ==
    /\ pc = "cboe"
    /\ \E o1 \in CboeFirst, o2 \in CboeSecond :
          LET got == get_cboe_put_call_ratio(o1, o2) IN
          /\ all_data' = Store(all_data, CboeName, SpreadStep(got.val))
          /\ fetched' = Append(fetched, [name |-> CboeName, o |-> got.src])
    /\ pc' = "save"
    /\ UNCHANGED <<idx, fredKey, fredReqs, fredFirst, notionKey, snapshot,
                   pages, pidx, remote, calcVars>>

CalcIdle ==
    /\ cpc = "idle"
    /\ kind = "return"
    /\ series = NoneFrame
    /\ result = None

InitFetch ==
    /\ CalcIdle
    /\ pc = "yahoo"
    /\ idx = 0
    /\ all_data = << >>
    /\ fetched = << >>
    /\ fredKey \in BOOLEAN
    /\ fredReqs = << >>
    /\ fredFirst = Skipped
    /\ notionKey = "unset"
    /\ snapshot = << >>
    /\ pages = << >>
    /\ pidx = 0
    /\ remote = << >>

NextFetch ==
    \/ FetchYahoo(YahooRich)
    \/ FetchFred(FredApiRich, FredCsvRich)
    \/ FetchCboe

\* fetch_all_data alone, with the providers' answers in detail
SpecFetch == InitFetch /\ [][NextFetch]_vars

-----------------------------------------------------------------------------
(* save_json_data, update_notion_database, main *)

\* a row of the remote store: whether its "资产名称" property holds a non-empty
\* title list, and the plain_text of the first title item
Row(titled, name) == [titled |-> titled, name |-> name]

RowKinds ==
    {Row(TRUE, "USD"), Row(TRUE, FredName), Row(TRUE, "Other"), Row(FALSE, "")}

\* what the query can return: up to MaxPages rows; a row's id is its position
PageLists == UNION {[1..n -> RowKinds] : n \in 0..MaxPages}

\* mutant: only an unset variable disables publishing
NotionEnabled_notUnset(key) == key # "unset"

\* `if not NOTION_API_KEY: return` is not taken
NotionEnabled(key) == key = "set"

\* mutant: every titled row is updated
RowMatches_titled(page, market_data) == page.titled

\* the two ifs of the loop body: a non-empty title whose text is a key
RowMatches(page, market_data) ==
    page.titled /\ page.name \in DOMAIN market_data

Call(op, row, res) == [op |-> op, row |-> row, res |-> res]

\* save_json_data(market_data): data.json is overwritten
SaveJson ==
    /\ pc = "save"
    /\ snapshot' = <<all_data>>
    /\ pc' = "notion"
    /\ UNCHANGED <<idx, all_data, fetched, fredKey, fredReqs, fredFirst,
                   notionKey, pages, pidx, remote, calcVars>>

\* update_notion_database up to its loop: the credential test, the query
\* (requests.post raises, answers another status, or answers 200 with rows),
\* the `if not pages` test
NotionStart ==
    /\ pc = "notion"
    /\ IF ~NotionEnabled(notionKey)
       THEN /\ pc' = "done"
            /\ UNCHANGED <<pages, remote>>
       ELSE \E res \in {"raise", "rejected", "ok"} :
               \E rows \in (IF res = "ok" THEN PageLists ELSE {<< >>}) :
                  /\ remote' = Append(remote, Call("query", 0, res))
                  /\ pages' = rows
                  /\ pc' = IF res = "raise" THEN "crashed"
                           ELSE IF rows = << >> THEN "done" ELSE "pages"
    /\ UNCHANGED <<idx, all_data, fetched, fredKey, fredReqs, fredFirst,
                   notionKey, snapshot, pidx, calcVars>>

\* one iteration of `for page in pages`: update_notion_page answers 200,
\* answers another status, or requests.patch raises (nothing catches it)
UpdateRow ==
    /\ pc = "pages"
    /\ pidx < Len(pages)
    /\ pidx' = pidx + 1
    /\ IF RowMatches(pages[pidx + 1], all_data)
       THEN \E res \in {"ok", "rejected", "raise"} :
               /\ remote' = Append(remote, Call("update", pidx + 1, res))
               /\ pc' = IF res = "raise" THEN "crashed"
                        ELSE IF pidx + 1 = Len(pages) THEN "done" ELSE "pages"
       ELSE /\ remote' = remote
            /\ pc' = IF pidx + 1 = Len(pages) THEN "done" ELSE "pages"
    /\ UNCHANGED <<idx, all_data, fetched, fredKey, fredReqs, fredFirst,
                   notionKey, snapshot, pages, calcVars>>

Init ==
    /\ CalcIdle
    /\ pc = "yahoo"
    /\ idx = 0
    /\ all_data = << >>
    /\ fetched = << >>
    /\ fredKey \in BOOLEAN
    /\ fredReqs = << >>
    /\ fredFirst = Skipped
    /\ notionKey \in {"unset", "empty", "set"}
    /\ snapshot = << >>
    /\ pages = << >>
    /\ pidx = 0
    /\ remote = << >>

Next ==
    \/ FetchYahoo(YahooSmall)
    \/ FetchFred(FredApiSmall, FredCsvSmall)
    \/ FetchCboe
    \/ SaveJson
    \/ NotionStart
    \/ UpdateRow

\* one run of main
Spec == Init /\ [][Next]_vars

\* main is one sequential thread: a step that can be taken is taken
FairSpec == Spec /\ WF_vars(Next)

-----------------------------------------------------------------------------
(* SpecCalc: one call of calculate_returns or calculate_spread_changes *)

MainIdle ==
    /\ pc = "idle"
    /\ idx = 0
    /\ all_data = << >>
    /\ fetched = << >>
    /\ fredKey = FALSE
    /\ fredReqs = << >>
    /\ fredFirst = Skipped
    /\ notionKey = "unset"
    /\ snapshot = << >>
    /\ pages = << >>
    /\ pidx = 0
    /\ remote = << >>

InitCalc ==
    /\ cpc = "call"
    /\ kind \in {"return", "delta"}
    /\ series \in CalcInputs
    /\ result = None
    /\ MainIdle

CallReturns ==
    /\ cpc = "call"
    /\ kind = "return"
    /\ result' = calculate_returns(series)
    /\ cpc' = "returned"
    /\ UNCHANGED <<kind, series, mainVars>>

CallSpread ==
    /\ cpc = "call"
    /\ kind = "delta"
    /\ result' = calculate_spread_changes(series)
    /\ cpc' = "returned"
    /\ UNCHANGED <<kind, series, mainVars>>

NextCalc == CallReturns \/ CallSpread

SpecCalc == InitCalc /\ [][NextCalc]_vars

-----------------------------------------------------------------------------
(* Claims about the metric functions, under SpecCalc *)

\* the valid (non-missing) points of the argument, oldest first
Points == SelectSeq(series.rows, LAMBDA r : ~r.nan)
NPoints == Len(Points)

PointLabels == {"latest", "1d", "1w", "1m", "1y"}

\* The lookback of each point-count metric, as the specification states it.
Offsets == {<<"1d", 1>>, <<"1w", 5>>, <<"1m", 21>>, <<"1y", 252>>}

\* new/old - 1 (return) or new - old (delta) of two series values, to 6
\* decimals; no value when the quotient is not finite.
Expected(k, new, old) ==
    IF k = "return"
    THEN IF old = 0 THEN PyNone
         ELSE <<RoundHalfEven((new - old) * RoundScale, old)>>
    ELSE <<RoundHalfEven((new - old) * RoundScale, InputScale)>>

\* C2, as stated: with at least 1 valid point the Metric Set exists and
\* `latest` equals the last value of the series (to the 6 decimals every
\* output is rounded to).
C2_AsStated ==
    (cpc = "returned" /\ ~series.isNone /\ NPoints >= 1) =>
        /\ ~result.none
        /\ "latest" \in DOMAIN result.d
        /\ result.d["latest"] =
              <<RoundHalfEven(Points[NPoints].val * RoundScale, InputScale)>>

\* C2, amended: with at least 2 valid points the Metric Set exists and
\* `latest` equals the last value of the series (to the 6 decimals every
\* output is rounded to).
C2_LatestFromTwoPoints ==
    (cpc = "returned" /\ ~series.isNone /\ NPoints >= 2) =>
        /\ ~result.none
        /\ "latest" \in DOMAIN result.d
        /\ result.d["latest"] =
              <<RoundHalfEven(Points[NPoints].val * RoundScale, InputScale)>>

C2_Witness ==
    /\ cpc = "returned"
    /\ kind = "return"
    /\ NPoints = 2
    /\ Len(series.rows) = 3
    /\ ~result.none
    /\ result.d["latest"] # PyNone
    /\ result.d["latest"][1] * InputScale # Points[NPoints].val * RoundScale

\* C3: for n >= 2 valid points and each (metric, offset), the metric is a key
\* iff n > offset, and its value is computed from series[n-1] and
\* series[n-1-offset] (here 1-based: Points[n] and Points[n - offset]) as
\* last/old - 1 in return mode and last - old in delta mode.
C3_PointLookbacks ==
    (cpc = "returned" /\ ~series.isNone /\ NPoints >= 2) =>
        /\ ~result.none
        /\ \A lo \in Offsets :
              /\ (lo[1] \in DOMAIN result.d) <=> (NPoints > lo[2])
              /\ (NPoints > lo[2]) =>
                    result.d[lo[1]] =
                        Expected(kind, Points[NPoints].val,
                                 Points[NPoints - lo[2]].val)

\* n = 6 in return mode: 1w is computed from series[5] and series[0]; 1m and
\* 1y are absent.
C3_Witness ==
    /\ cpc = "returned"
    /\ kind = "return"
    /\ NPoints = 6
    /\ ~result.none
    /\ "1w" \in DOMAIN result.d
    /\ result.d["1w"] = Expected("return", Points[6].val, Points[1].val)
    /\ result.d["1w"] # PyNone
    /\ result.d["1w"] # Expected("return", Points[6].val, Points[2].val)
    /\ "1m" \notin DOMAIN result.d
    /\ "1y" \notin DOMAIN result.d

\* the positions in pts of the points dated on or after day 1 of month m0 of
\* year y0, by comparing calendar fields
OnOrAfterIn(pts, y0, m0) ==
    {i \in 1..Len(pts) :
        \/ TsYear(pts[i].ts) > y0
        \/ TsYear(pts[i].ts) = y0 /\ TsMonth(pts[i].ts) >= m0}

OnOrAfter(y0, m0) == OnOrAfterIn(Points, y0, m0)

SetMin(S) == CHOOSE x \in S : \A z \in S : x <= z

\* key is present iff the window W has at least 2 points, and is then
\* window-last / window-first - 1
ToDateOk(key, W) ==
    /\ (key \in DOMAIN result.d) <=> (Cardinality(W) >= 2)
    /\ (Cardinality(W) >= 2) =>
          result.d[key] = Expected("return", Points[NPoints].val,
                                   Points[SetMin(W)].val)

\* C4: in return mode, with (y, m) the year and month of the most recent
\* observation, the quarter start month q is the one of {1,4,7,10} with
\* q <= m <= q + 2; the QTD window is the points dated >= (y, q, 1) and the
\* YTD window the points dated >= (y, 1, 1), both inclusive; each metric is
\* present iff its window has >= 2 points and is window-last/window-first - 1.
C4_QtdYtdWindows ==
    (cpc = "returned" /\ kind = "return" /\ ~series.isNone /\ NPoints >= 2) =>
        LET today == Points[NPoints].ts
            y == TsYear(today)
            m == TsMonth(today)
            q == quarter_month(today)
        IN  /\ q \in {1, 4, 7, 10}
            /\ q <= m
            /\ m <= q + 2
            /\ q = ((m - 1) \div 3) * 3 + 1
            /\ ~result.none
            /\ ToDateOk("QTD", OnOrAfter(y, q))
            /\ ToDateOk("YTD", OnOrAfter(y, 1))

\* a point dated exactly on the first day of the quarter is the first point of
\* the QTD window, and an older point exists
C4_Witness ==
    /\ cpc = "returned"
    /\ kind = "return"
    /\ NPoints >= 3
    /\ ~result.none
    /\ "QTD" \in DOMAIN result.d
    /\ LET today == Points[NPoints].ts
           W == OnOrAfter(TsYear(today), quarter_month(today))
       IN  /\ SetMin(W) > 1
           /\ Points[SetMin(W)].ts =
                 Timestamp(TsYear(today), quarter_month(today), 1)
           /\ TsMonth(today) = 8
           /\ quarter_month(today) = 7
           /\ result.d["QTD"] # PyNone

\* C9: a Metric Set produced by calculate_spread_changes has its keys within
\* {latest, 1d, 1w, 1m, 1y}: QTD and YTD are never present in delta mode.
C9_DeltaHasNoToDate ==
    (cpc = "returned" /\ kind = "delta" /\ ~result.none) =>
        DOMAIN result.d \subseteq PointLabels

\* a delta-mode series with every lookback available and at least 2 points in
\* the latest quarter: still no QTD, no YTD
C9_Witness ==
    /\ cpc = "returned"
    /\ kind = "delta"
    /\ ~result.none
    /\ NPoints > 252
    /\ DOMAIN result.d = PointLabels
    /\ Cardinality(OnOrAfter(TsYear(Points[NPoints].ts),
                             quarter_month(Points[NPoints].ts))) >= 2

-----------------------------------------------------------------------------
(* Claims about fetch_all_data, under SpecFetch *)

\* the instruments with a provider reference, in configuration order
Order ==
    [i \in 1..(Len(TickerMap) + 2) |->
        IF i <= Len(TickerMap) THEN TickerMap[i].name
        ELSE IF i = Len(TickerMap) + 1 THEN FredName ELSE CboeName]

AllLabels == PointLabels \cup {"QTD", "YTD"}

\* every answer a provider can give in these specifications
Answers ==
    YahooSmall \cup YahooRich \cup FredApiSmall \cup FredCsvSmall
        \cup FredApiRich \cup FredCsvRich \cup CboeFirst \cup CboeSecond
        \cup {Skipped}

\* the valid points of each answer
ValidTable == [o \in Answers |-> SelectSeq(RowsOf(o), LAMBDA r : ~r.nan)]

ValidOf(o) == ValidTable[o]

\* the fetch raised, gave no data, or gave data the metrics cannot be
\* computed from
Failed(o) == o.k # "data" \/ Len(ValidOf(o)) = 0 \/ ~o.dt

\* C1: every instrument is fetched exactly once, in configuration order,
\* whatever happened to the earlier ones; an instrument whose fetch raised,
\* returned no data, or whose metric computation failed is absent from the
\* Result Set and does not stop the fetch of the later ones.
C1_EachFetchedOnceInOrder ==
    /\ Len(fetched) <= Len(Order)
    /\ \A i \in 1..Len(fetched) : fetched[i].name = Order[i]
    /\ (pc = "yahoo") => (Len(fetched) = idx /\ idx < Len(TickerMap))
    /\ (pc = "fred") => (Len(fetched) = Len(TickerMap))
    /\ (pc = "cboe") => (Len(fetched) = Len(TickerMap) + 1)
    /\ (pc \notin {"yahoo", "fred", "cboe"}) => (Len(fetched) = Len(Order))
    /\ \A i \in 1..Len(fetched) :
          Failed(fetched[i].o) => fetched[i].name \notin DOMAIN all_data
    /\ DOMAIN all_data \subseteq {fetched[i].name : i \in 1..Len(fetched)}

\* the first ticker's download raised, a later fetch returned nothing usable,
\* and instruments after both were fetched and stored
C1_Witness ==
    /\ pc = "save"
    /\ fetched[1].o.k = "raise"
    /\ fetched[Len(TickerMap)].name \in DOMAIN all_data
    /\ Failed(fetched[Len(TickerMap) + 1].o)
    /\ CboeName \in DOMAIN all_data

\* the fetches of the Yahoo loop made so far
YahooFetches == {i \in 1..Len(fetched) : i <= Len(TickerMap)}

IsEmptySeries(o) == o.k = "data" /\ o.n = 0
IsLongSeries(o) == o.k = "data" /\ o.dt /\ Len(ValidOf(o)) > 252

\* how many valid points of each answer are dated in the quarter, and in the
\* year, of its last valid point
InLastQuarter ==
    [o \in Answers |->
        LET pts == ValidOf(o) IN
        IF pts = << >> THEN 0
        ELSE LET y == TsYear(pts[Len(pts)].ts)
                 m == TsMonth(pts[Len(pts)].ts)
                 q == CHOOSE c \in {1, 4, 7, 10} : c <= m /\ m <= c + 2
             IN  Cardinality(OnOrAfterIn(pts, y, q))]

InLastYear ==
    [o \in Answers |->
        LET pts == ValidOf(o) IN
        IF pts = << >> THEN 0
        ELSE Cardinality(OnOrAfterIn(pts, TsYear(pts[Len(pts)].ts), 1))]

\* C5, as stated: an instrument whose provider returns an empty series is
\* absent and raises nothing; one whose provider returns a long series (more
\* than 252 valid points) is present with all 7 metrics.
C5_AsStated ==
    \A i \in YahooFetches :
        /\ IsEmptySeries(fetched[i].o) =>
              (fetched[i].name \notin DOMAIN all_data /\ pc # "crashed")
        /\ IsLongSeries(fetched[i].o) =>
              /\ fetched[i].name \in DOMAIN all_data
              /\ DOMAIN all_data[fetched[i].name] = AllLabels

\* C5, amended: the long series is present iff its last value, rounded to 6
\* decimals, is not 0; when present it has latest, 1d, 1w, 1m and 1y, and has
\* QTD (YTD) iff at least 2 of its points are dated in the quarter (year) of
\* its last point.
C5_EndToEnd ==
    \A i \in YahooFetches :
        LET o == fetched[i].o
            name == fetched[i].name
            pts == ValidOf(o)
            last == pts[Len(pts)]
        IN  /\ IsEmptySeries(o) => (name \notin DOMAIN all_data /\ pc # "crashed")
            /\ IsLongSeries(o) =>
                  /\ (name \in DOMAIN all_data) <=>
                        (RoundHalfEven(last.val * RoundScale, InputScale) # 0)
                  /\ (name \in DOMAIN all_data) =>
                        LET ms == DOMAIN all_data[name]
                        IN  /\ PointLabels \subseteq ms
                            /\ ms \subseteq AllLabels
                            /\ ("QTD" \in ms) <=> (InLastQuarter[o] >= 2)
                            /\ ("YTD" \in ms) <=> (InLastYear[o] >= 2)

\* an empty series, then a long series whose last point opens a quarter:
\* stored with 6 metrics, QTD absent
C5_Witness ==
    /\ Len(fetched) >= 2
    /\ IsEmptySeries(fetched[1].o)
    /\ fetched[1].name \notin DOMAIN all_data
    /\ IsLongSeries(fetched[2].o)
    /\ fetched[2].name \in DOMAIN all_data
    /\ DOMAIN all_data[fetched[2].name] = AllLabels \ {"QTD"}

\* the primary attempt did not yield non-empty data
PrimaryFailed(o) == o.k \in {"raise", "http_error"} \/ Len(ValidOf(o)) = 0

\* C10, as stated: with an API key, whenever the primary attempt fails in any
\* way the secondary download is still attempted, and at most 2 requests are
\* made.
C10_AsStated ==
    (pc \in {"cboe", "save"} /\ fredKey) =>
        /\ Len(fredReqs) <= 2
        /\ fredReqs[1] = "api"
        /\ PrimaryFailed(fredFirst) => fredReqs = <<"api", "csv">>

-----------------------------------------------------------------------------
(* Claims about publishing and main, under Spec and FairSpec *)

\* the update calls made for row j
UpdatesOf(j) ==
    {c \in 1..Len(remote) : remote[c].op = "update" /\ remote[c].row = j}

UpdateFailed(j) ==
    \E c \in UpdatesOf(j) : remote[c].res \in {"rejected", "raise"}

\* the text of row j's display name is a key of the Result Set
NameIsKey(j) == pages[j].titled /\ pages[j].name \in DOMAIN all_data

\* C6, as stated: when the update of a row fails (a non-success status, or
\* the call itself failing), an update is still attempted for every later row
\* whose display name is a key of the Result Set.
C6_AsStated ==
    (pc \in {"done", "crashed"}) =>
        \A j \in 1..Len(pages) : \A i \in 1..Len(pages) :
            (j < i /\ UpdateFailed(j) /\ NameIsKey(i)) => UpdatesOf(i) # {}

C8_RemoteAfterSnapshotWithKey ==
    /\ [](remote # << >> => (snapshot # << >> /\ notionKey = "set"))
    /\ [](notionKey # "set" =>
            <>(/\ pc = "done"
               /\ Len(fetched) = Len(Order)
               /\ snapshot = <<all_data>>
               /\ remote = << >>))

C8_Witness ==
    /\ pc = "done"
    /\ notionKey = "empty"
    /\ Len(fetched) = Len(Order)
    /\ snapshot = <<all_data>>
    /\ all_data # << >>
    /\ remote = << >>

=============================================================================
